---- MODULE Spec2Model ----
(***************************************************************************)
(* A model of scripts/plot_abtc_btc.py: the CSV loader, the three          *)
(* statistics functions, the coordinate mapping and the ordered element    *)
(* list that render_svg builds and writes.                                 *)
(*                                                                         *)
(* Numbers.  The script computes with Python floats.  The model computes   *)
(* with exact rationals <<n, d>> in lowest terms (d > 0); on the inputs    *)
(* drawn here (small integers and halves) the statements do not depend on  *)
(* rounding.  A division by zero, which raises ZeroDivisionError in        *)
(* Python, yields the absorbing value Raised; a function whose result      *)
(* holds Raised has raised.  NaN and infinities are not modelled.          *)
(***************************************************************************)
EXTENDS Integers, Sequences, FiniteSets, TLC

VARIABLES
    pc,         \* position of the run
    csv_file,   \* the input file: [exists, header, rows]
    rowsRead,   \* data rows the csv reader has handed out
    dates,      \* load_price_data: dates
    prices,     \* load_price_data: prices (asset -> sequence)
    err,        \* the exception that ended the run, or NoError
    scales,     \* render_svg locals computed before the element list
    svg_parts,  \* render_svg: svg_parts
    output,     \* the output path: [writes, content]
    arg,        \* argument of a statistics function called on its own
    ret         \* its result

vars == <<pc, csv_file, rowsRead, dates, prices, err, scales, svg_parts, output, arg, ret>>

-----------------------------------------------------------------------------
(* Bounds of the model *)

MaxRows == 3
MaxLen == 5
MaxTrendLen == 6
MaxCount == 60

-----------------------------------------------------------------------------
(* Exact rational arithmetic standing for Python float arithmetic *)

Abs(x) == IF x < 0 THEN -x ELSE x

RECURSIVE GCD(_, _)
GCD(a, b) == IF b = 0 THEN a ELSE GCD(b, a % b)

Raised == <<0, 0>>

RNorm(n, d) ==
    IF d = 0 THEN Raised
    ELSE LET g == GCD(Abs(n), Abs(d))
             s == IF d < 0 THEN -1 ELSE 1
         IN  <<(s * n) \div g, (s * d) \div g>>

R(i) == <<i, 1>>
RAdd(a, b) == RNorm(a[1] * b[2] + b[1] * a[2], a[2] * b[2])
RSub(a, b) == RNorm(a[1] * b[2] - b[1] * a[2], a[2] * b[2])
RMul(a, b) == RNorm(a[1] * b[1], a[2] * b[2])
RDiv(a, b) == RNorm(a[1] * b[2], a[2] * b[1])
RLt(a, b) == a[1] * b[2] < b[1] * a[2]
RLe(a, b) == a[1] * b[2] <= b[1] * a[2]
RMin2(a, b) == IF RLt(b, a) THEN b ELSE a
RMax2(a, b) == IF RLt(a, b) THEN b ELSE a

HasRaised(s) == \E i \in 1..Len(s) : s[i] = Raised

RECURSIVE RSum(_)
RSum(s) == IF s = <<>> THEN R(0) ELSE RAdd(s[1], RSum(Tail(s)))

RECURSIVE RMinSeq(_)
RMinSeq(s) == IF Len(s) = 1 THEN s[1] ELSE RMin2(s[1], RMinSeq(Tail(s)))

RECURSIVE RMaxSeq(_)
RMaxSeq(s) == IF Len(s) = 1 THEN s[1] ELSE RMax2(s[1], RMaxSeq(Tail(s)))

(* format(value, ".kf"): the decimal with k digits nearest to the value,   *)
(* ties to even; returned as the integer value * 10^k                      *)
RoundHalfEven(n, d) ==
    LET q == n \div d
        r == n - q * d
    IN  IF 2 * r < d THEN q
        ELSE IF 2 * r > d THEN q + 1
        ELSE IF q % 2 = 0 THEN q ELSE q + 1

Fmt2(v) == RoundHalfEven(100 * v[1], v[2])
Fmt1(v) == RoundHalfEven(10 * v[1], v[2])

-----------------------------------------------------------------------------
(* Statistics functions *)

ASSETS == <<"ABTC", "BTC">>

RECURSIVE ISum(_)
ISum(s) == IF s = <<>> THEN 0 ELSE s[1] + ISum(Tail(s))

(* xs = list(range(n)) *)
Range(n) == [i \in 1..n |-> i - 1]

(* denom = n * sum_xx - sum_x * sum_x *)
TrendDenom(n) ==
    LET xs == Range(n)
        sum_x  == ISum(xs)
        sum_xx == ISum([i \in 1..n |-> xs[i] * xs[i]])
    IN  n * sum_xx - sum_x * sum_x

TrendSlope(n, sum_x, sum_y, sum_xy, denom) ==
    IF denom = 0 THEN R(0)
    ELSE RDiv(RSub(RMul(R(n), sum_xy), RMul(R(sum_x), sum_y)), R(denom))

(* Variant: the intercept taken as the mean, slope * sum_x left out *)
TrendIntercept_SlopeDropped(n, sum_x, sum_y, slope) == RDiv(sum_y, R(n))

TrendIntercept(n, sum_x, sum_y, slope) == RDiv(RSub(sum_y, RMul(slope, R(sum_x))), R(n))

compute_trendline(values) ==
    LET n == Len(values)
        xs == Range(n)
        sum_x  == ISum(xs)
        sum_y  == RSum(values)
        sum_xy == RSum([i \in 1..n |-> RMul(R(xs[i]), values[i])])
        denom  == TrendDenom(n)
        slope  == TrendSlope(n, sum_x, sum_y, sum_xy, denom)
        intercept == TrendIntercept(n, sum_x, sum_y, slope)
    IN  IF n = 0 THEN <<>>
        ELSE [i \in 1..n |-> RAdd(RMul(slope, R(xs[i])), intercept)]

(* Variant: the  prev == 0  test left out *)
FluctStep_NoZeroCheck(prev, curr) == RMul(RDiv(RSub(curr, prev), prev), R(100))

FluctStep(prev, curr) ==
    IF prev = R(0) THEN R(0)
    ELSE RMul(RDiv(RSub(curr, prev), prev), R(100))

compute_fluctuation(values) ==
    IF values = <<>> THEN <<>>
    ELSE [i \in 1..Len(values) |->
            IF i = 1 THEN R(0) ELSE FluctStep(values[i - 1], values[i])]

compute_relative_change(values) ==
    IF values = <<>> THEN <<>>
    ELSE LET baseline == values[1]
         IN  IF baseline = R(0) THEN [i \in 1..Len(values) |-> R(0)]
             ELSE [i \in 1..Len(values) |->
                     RMul(RDiv(RSub(values[i], baseline), baseline), R(100))]

_linspace(start, stop, count) ==
    IF count = 1 THEN <<start>>
    ELSE LET step == RDiv(RSub(stop, start), R(count - 1))
         IN  [i \in 1..count |-> RAdd(start, RMul(step, R(i - 1)))]

-----------------------------------------------------------------------------
(* The input file *)

Columns == {"date", "ABTC", "BTC"}

Cell(v) == [ok |-> TRUE, val |-> v]
BadCell == [ok |-> FALSE, val |-> 0]

AbtcPrices == {0, 100, 110}
BtcPrices == {200, 210}

(* A data row: the cells under the date column and the two asset columns.  *)
(* ok = FALSE is a cell datetime.fromisoformat / float cannot convert.     *)
GoodRows == {[date |-> Cell(1), ABTC |-> Cell(a), BTC |-> Cell(b)] :
                a \in AbtcPrices, b \in BtcPrices}
BadRows == {[date |-> BadCell, ABTC |-> Cell(100), BTC |-> Cell(200)],
            [date |-> Cell(1), ABTC |-> BadCell, BTC |-> Cell(200)],
            [date |-> Cell(1), ABTC |-> Cell(100), BTC |-> BadCell]}
RowKinds == GoodRows \cup BadRows

RowSeqs == UNION {[1..n -> RowKinds] : n \in 0..MaxRows}

NoFile == [exists |-> FALSE, header |-> {}, rows |-> <<>>]
Files == {NoFile} \cup
         {[exists |-> TRUE, header |-> h, rows |-> r] : h \in SUBSET Columns, r \in RowSeqs}

-----------------------------------------------------------------------------
(* Exceptions *)

NoError == [type |-> "none", msg |-> "", detail |-> <<>>]
FileNotFound == [type |-> "FileNotFoundError", msg |-> "", detail |-> <<>>]
MissingDateError ==
    [type |-> "ValueError", msg |-> "CSV must contain a 'date' column", detail |-> <<>>]
MissingAssetsError(missing) ==
    [type |-> "ValueError", msg |-> "CSV is missing expected asset columns: ",
     detail |-> missing]
NoRowsError == [type |-> "ValueError", msg |-> "No rows found in price CSV", detail |-> <<>>]
ConversionError(col) == [type |-> "ValueError", msg |-> "conversion", detail |-> <<col>>]
KeyError(col) == [type |-> "KeyError", msg |-> "", detail |-> <<col>>]
ZeroDivisionError == [type |-> "ZeroDivisionError", msg |-> "", detail |-> <<>>]

-----------------------------------------------------------------------------
(* load_price_data *)

(* sorted(set(ASSETS).difference(fieldnames)) *)
MissingAssets(header) == SelectSeq(ASSETS, LAMBDA a : a \notin header)

(* Variant: the asset-column test left out *)
HeaderError_DateOnly(header) ==
    IF "date" \notin header THEN MissingDateError ELSE NoError

HeaderError(header) ==
    IF "date" \notin header THEN MissingDateError
    ELSE IF MissingAssets(header) # <<>> THEN MissingAssetsError(MissingAssets(header))
    ELSE NoError

(* with csv_path.open(...): the reader takes the header line; the two     *)
(* header checks                                                          *)
OpenAndCheckHeader ==
    /\ pc = "start"
    /\ IF ~csv_file.exists
       THEN /\ pc' = "failed"
            /\ err' = FileNotFound
       ELSE IF HeaderError(csv_file.header) # NoError
       THEN /\ pc' = "failed"
            /\ err' = HeaderError(csv_file.header)
       ELSE /\ pc' = "rows"
            /\ err' = err
    /\ UNCHANGED <<csv_file, rowsRead, dates, prices, scales, svg_parts, output, arg, ret>>

(* The first column of the row, in the order the loop body converts       *)
(* them, that raises; "" when the whole row converts                      *)
RowFailure(header, row) ==
    IF "date" \notin header THEN KeyError("date")
    ELSE IF ~row.date.ok THEN ConversionError("date")
    ELSE IF "ABTC" \notin header THEN KeyError("ABTC")
    ELSE IF ~row.ABTC.ok THEN ConversionError("ABTC")
    ELSE IF "BTC" \notin header THEN KeyError("BTC")
    ELSE IF ~row.BTC.ok THEN ConversionError("BTC")
    ELSE NoError

(* One iteration of  for row in reader  *)
ReadRow ==
    /\ pc = "rows"
    /\ rowsRead < Len(csv_file.rows)
    /\ LET row == csv_file.rows[rowsRead + 1]
           e == RowFailure(csv_file.header, row)
           dateOk == e = NoError \/ e.detail # <<"date">>
           abtcOk == e = NoError \/ e.detail = <<"BTC">>
       IN  /\ rowsRead' = rowsRead + 1
           /\ dates' = IF dateOk THEN Append(dates, row.date.val) ELSE dates
           /\ prices' = [a \in {"ABTC", "BTC"} |->
                           IF a = "ABTC"
                           THEN IF abtcOk THEN Append(prices[a], R(row.ABTC.val)) ELSE prices[a]
                           ELSE IF e = NoError THEN Append(prices[a], R(row.BTC.val)) ELSE prices[a]]
           /\ err' = e
           /\ pc' = IF e = NoError THEN "rows" ELSE "failed"
    /\ UNCHANGED <<csv_file, scales, svg_parts, output, arg, ret>>

(* The reader is exhausted:  if not dates: raise ...;  return PriceSeries *)
EndOfRows ==
    /\ pc = "rows"
    /\ rowsRead = Len(csv_file.rows)
    /\ IF dates = <<>>
       THEN /\ pc' = "failed"
            /\ err' = NoRowsError
       ELSE /\ pc' = "loaded"
            /\ err' = err
    /\ UNCHANGED <<csv_file, rowsRead, dates, prices, scales, svg_parts, output, arg, ret>>

-----------------------------------------------------------------------------
(* render_svg: the canvas and the two vertical scales *)

width == 1000
height == 620
margin_left == 90
margin_right == 110
margin_top == 70
margin_bottom == 80
plot_width == width - margin_left - margin_right
plot_height == height - margin_top - margin_bottom
bottom == margin_top + plot_height

(* Variant: the  else 1.0  fallback left out *)
RelRange_NoFallback(rel_min, rel_max) == RSub(rel_max, rel_min)

RelRange(rel_min, rel_max) == IF rel_max # rel_min THEN RSub(rel_max, rel_min) ELSE R(1)

(* Variant: the padding applied before the nudge *)
FluctDomain_PadThenNudge(fluctuation) ==
    LET min1 == RMin2(R(0), RMinSeq(fluctuation["ABTC"]))
        max1 == RMax2(R(0), RMaxSeq(fluctuation["ABTC"]))
        min2 == RMin2(min1, RMinSeq(fluctuation["BTC"]))
        max2 == RMax2(max1, RMaxSeq(fluctuation["BTC"]))
        fluct_padding == RMul(RSub(max2, min2), <<1, 20>>)
        min3 == RSub(min2, fluct_padding)
        max3 == RAdd(max2, fluct_padding)
    IN  [fluct_min |-> IF min3 = max3 THEN RSub(min3, R(1)) ELSE min3,
         fluct_max |-> IF min3 = max3 THEN RAdd(max3, R(1)) ELSE max3]

(* The loop over the assets that folds min/max into fluct_min, fluct_max  *)
(* (both start at 0.0), then the nudge, then the padding                  *)
FluctDomain(fluctuation) ==
    LET min1 == RMin2(R(0), RMinSeq(fluctuation["ABTC"]))
        max1 == RMax2(R(0), RMaxSeq(fluctuation["ABTC"]))
        min2 == RMin2(min1, RMinSeq(fluctuation["BTC"]))
        max2 == RMax2(max1, RMaxSeq(fluctuation["BTC"]))
        min3 == IF min2 = max2 THEN RSub(min2, R(1)) ELSE min2
        max3 == IF min2 = max2 THEN RAdd(max2, R(1)) ELSE max2
        fluct_padding == RMul(RSub(max3, min3), <<1, 20>>)
    IN  [fluct_min |-> RSub(min3, fluct_padding), fluct_max |-> RAdd(max3, fluct_padding)]

price_y(value, rel_min, rel_range) ==
    LET normalized == RDiv(RSub(value, rel_min), rel_range)
    IN  RSub(R(margin_top + plot_height), RMul(normalized, R(plot_height)))

fluct_y(value, fluct_min, fluct_max) ==
    LET normalized == RDiv(RSub(value, fluct_min), RSub(fluct_max, fluct_min))
    IN  RSub(R(margin_top + plot_height), RMul(normalized, R(plot_height)))

NoScales == [computed |-> FALSE]

(* Lines 155-189: everything render_svg computes before svg_parts         *)
Scales(ds, ps) ==
    LET count == Len(ds)
        relative_prices == [a \in {"ABTC", "BTC"} |-> compute_relative_change(ps[a])]
        rel_min == RMin2(RMinSeq(relative_prices["ABTC"]), RMinSeq(relative_prices["BTC"]))
        rel_max == RMax2(RMaxSeq(relative_prices["ABTC"]), RMaxSeq(relative_prices["BTC"]))
        fluctuation == [a \in {"ABTC", "BTC"} |-> compute_fluctuation(ps[a])]
        dom == FluctDomain(fluctuation)
    IN  [computed |-> TRUE,
         count |-> count,
         xs |-> _linspace(R(margin_left), R(margin_left + plot_width), count),
         relative_prices |-> relative_prices,
         rel_min |-> rel_min,
         rel_max |-> rel_max,
         rel_range |-> RelRange(rel_min, rel_max),
         fluctuation |-> fluctuation,
         fluct_min |-> dom.fluct_min,
         fluct_max |-> dom.fluct_max,
         price_trendlines |-> [a \in {"ABTC", "BTC"} |-> compute_trendline(relative_prices[a])]]

ScalesRaised(sc) ==
    \/ HasRaised(sc.xs)
    \/ \E a \in {"ABTC", "BTC"} :
         \/ HasRaised(sc.relative_prices[a])
         \/ HasRaised(sc.fluctuation[a])
         \/ HasRaised(sc.price_trendlines[a])

NoOutput == [writes |-> 0, content |-> <<>>]

(* Variant: render_svg opening (truncating) the output file on entry *)
ComputeScales_OpensOutputFirst ==
    /\ pc = "loaded"
    /\ LET sc == Scales(dates, prices)
       IN  IF ScalesRaised(sc)
           THEN /\ pc' = "failed"
                /\ err' = ZeroDivisionError
                /\ scales' = scales
           ELSE /\ pc' = "computed"
                /\ err' = err
                /\ scales' = sc
    /\ output' = [writes |-> output.writes + 1, content |-> <<>>]
    /\ UNCHANGED <<csv_file, rowsRead, dates, prices, svg_parts, arg, ret>>

ComputeScales ==
    /\ pc = "loaded"
    /\ LET sc == Scales(dates, prices)
       IN  IF ScalesRaised(sc)
           THEN /\ pc' = "failed"
                /\ err' = ZeroDivisionError
                /\ scales' = scales
           ELSE /\ pc' = "computed"
                /\ err' = err
                /\ scales' = sc
    /\ UNCHANGED <<csv_file, rowsRead, dates, prices, svg_parts, output, arg, ret>>

-----------------------------------------------------------------------------
(* render_svg: the element list.  Every coordinate is held as the number  *)
(* the document shows (two decimals), times 100.                          *)

PRICE_COLORS == [ABTC |-> "#2ca02c", BTC |-> "#1f77b4"]
TRENDLINE_COLORS == [ABTC |-> "#98df8a", BTC |-> "#aec7e8"]
FLUCTUATION_COLORS == [ABTC |-> "#d62728", BTC |-> "#ff7f0e"]

(* role names the statement of render_svg that appended the element *)
Elem(tag, role, color, pts, sw, dash) ==
    [tag |-> tag, role |-> role, color |-> color, pts |-> pts, width |-> sw, dash |-> dash]

Px(i) == Fmt2(R(i))

_svg_polyline(points, role, color, sw, dash) ==
    Elem("polyline", role, color, [i \in 1..Len(points) |-> <<Fmt2(points[i][1]), Fmt2(points[i][2])>>],
         sw, dash)

_svg_text(x, y, role) == Elem("text", role, "#333", <<<<Fmt2(x), Fmt2(y)>>>>, "", "")

(* list(zip(xs, ys)) *)
Zip(xs, ys) ==
    [i \in 1..(IF Len(xs) < Len(ys) THEN Len(xs) ELSE Len(ys)) |-> <<xs[i], ys[i]>>]

RECURSIVE Flatten(_)
Flatten(ss) == IF ss = <<>> THEN <<>> ELSE ss[1] \o Flatten(Tail(ss))

Preamble ==
    <<Elem("xml", "declaration", "", <<>>, "", ""),
      Elem("svg", "open", "", <<>>, "", ""),
      Elem("rect", "background", "white", <<>>, "", "")>>

price_ticks == 6
fluct_ticks == 6

(* Grid lines with their left tick labels *)
GridElements(sc) ==
    Flatten([k \in 1..price_ticks |->
        LET value == RAdd(sc.rel_min, RMul(RDiv(sc.rel_range, R(price_ticks - 1)), R(k - 1)))
            y == price_y(value, sc.rel_min, sc.rel_range)
        IN  <<Elem("line", "grid", "#e0e0e0",
                   <<<<Px(margin_left), Fmt2(y)>>, <<Px(margin_left + plot_width), Fmt2(y)>>>>,
                   "", "4 6"),
              _svg_text(R(margin_left - 10), RAdd(y, R(5)), "tick_label_left")>>])

AxisElements ==
    <<Elem("line", "axis", "#333",
           <<<<Px(margin_left), Px(margin_top)>>, <<Px(margin_left), Px(bottom)>>>>, "1.5", ""),
      Elem("line", "axis", "#333",
           <<<<Px(margin_left), Px(bottom)>>, <<Px(margin_left + plot_width), Px(bottom)>>>>,
           "1.5", ""),
      Elem("line", "axis", "#333",
           <<<<Px(margin_left + plot_width), Px(margin_top)>>,
             <<Px(margin_left + plot_width), Px(bottom)>>>>, "1.5", "")>>

RightTickElements(sc) ==
    [k \in 1..fluct_ticks |->
        LET value == RAdd(sc.fluct_min,
                          RMul(RDiv(RSub(sc.fluct_max, sc.fluct_min), R(fluct_ticks - 1)),
                               R(k - 1)))
            y == fluct_y(value, sc.fluct_min, sc.fluct_max)
        IN  _svg_text(R(margin_left + plot_width + 10), RAdd(y, R(5)), "tick_label_right")]

(* X-axis labels: indices are 0-based, as in the script *)
Min2(a, b) == IF a < b THEN a ELSE b
Max2(a, b) == IF a > b THEN a ELSE b

XLabelStep(count) ==
    LET label_count == Min2(6, count)
    IN  IF label_count > 1 THEN Max2(1, count \div (label_count - 1)) ELSE 1

(* list(range(0, count, step)) *)
XLabelStride(count) ==
    LET step == XLabelStep(count)
    IN  [k \in 1..((count + step - 1) \div step) |-> (k - 1) * step]

XLabelExtra(count) == (count - 1) % XLabelStep(count) # 0

XLabelIndices(count) ==
    XLabelStride(count) \o (IF XLabelExtra(count) THEN <<count - 1>> ELSE <<>>)

DateLabelElements(sc) ==
    LET idxs == XLabelIndices(sc.count)
    IN  [k \in 1..Len(idxs) |-> _svg_text(sc.xs[idxs[k] + 1], R(bottom + 25), "date_label")]

(* Variant: the fluctuation polyline appended inside the first loop *)
DataPolylines_FluctInLoop(sc) ==
    Flatten([k \in 1..Len(ASSETS) |->
        LET asset == ASSETS[k]
            price_points ==
                Zip(sc.xs, [i \in 1..Len(sc.relative_prices[asset]) |->
                              price_y(sc.relative_prices[asset][i], sc.rel_min, sc.rel_range)])
            trend_points ==
                Zip(sc.xs, [i \in 1..Len(sc.price_trendlines[asset]) |->
                              price_y(sc.price_trendlines[asset][i], sc.rel_min, sc.rel_range)])
            fluct_points ==
                Zip(sc.xs, [i \in 1..Len(sc.fluctuation[asset]) |->
                              fluct_y(sc.fluctuation[asset][i], sc.fluct_min, sc.fluct_max)])
        IN  <<_svg_polyline(price_points, "relative_change", PRICE_COLORS[asset], "3.0", ""),
              _svg_polyline(trend_points, "trendline", TRENDLINE_COLORS[asset], "2.0", "6 6"),
              _svg_polyline(fluct_points, "fluctuation", FLUCTUATION_COLORS[asset], "2.0",
                          "2 6")>>])

(* The two loops over ASSETS that append the data polylines *)
DataPolylines(sc) ==
    Flatten([k \in 1..Len(ASSETS) |->
        LET asset == ASSETS[k]
            price_points ==
                Zip(sc.xs, [i \in 1..Len(sc.relative_prices[asset]) |->
                              price_y(sc.relative_prices[asset][i], sc.rel_min, sc.rel_range)])
            trend_points ==
                Zip(sc.xs, [i \in 1..Len(sc.price_trendlines[asset]) |->
                              price_y(sc.price_trendlines[asset][i], sc.rel_min, sc.rel_range)])
        IN  <<_svg_polyline(price_points, "relative_change", PRICE_COLORS[asset], "3.0", ""),
              _svg_polyline(trend_points, "trendline", TRENDLINE_COLORS[asset], "2.0", "6 6")>>])
    \o
    [k \in 1..Len(ASSETS) |->
        LET asset == ASSETS[k]
            fluct_points ==
                Zip(sc.xs, [i \in 1..Len(sc.fluctuation[asset]) |->
                              fluct_y(sc.fluctuation[asset][i], sc.fluct_min, sc.fluct_max)])
        IN  _svg_polyline(fluct_points, "fluctuation", FLUCTUATION_COLORS[asset], "2.0",
                          "2 6")]

TitleElements ==
    <<_svg_text(<<width, 2>>, R(margin_top - 25), "title"),
      _svg_text(<<width, 2>>, R(height - 25), "x_axis_label"),
      _svg_text(R(margin_left - 60), R(margin_top - 30), "left_axis_label"),
      _svg_text(RSub(R(width), <<margin_right, 2>>), R(margin_top - 30), "right_axis_label")>>

legend_x == margin_left + 20
legend_y == margin_top + 20
legend_spacing == 22

legend_items ==
    <<<<PRICE_COLORS["ABTC"], "">>, <<TRENDLINE_COLORS["ABTC"], "6 6">>,
      <<FLUCTUATION_COLORS["ABTC"], "2 6">>, <<PRICE_COLORS["BTC"], "">>,
      <<TRENDLINE_COLORS["BTC"], "6 6">>, <<FLUCTUATION_COLORS["BTC"], "2 6">>>>

LegendElements ==
    Flatten([k \in 1..Len(legend_items) |->
        LET y == legend_y + (k - 1) * legend_spacing
        IN  <<Elem("line", "legend_line", legend_items[k][1],
                   <<<<Px(legend_x), Px(y)>>, <<Px(legend_x + 28), Px(y)>>>>, "3",
                   legend_items[k][2]),
              _svg_text(R(legend_x + 40), R(y + 5), "legend_label")>>])

Closing == <<Elem("svg", "close", "", <<>>, "", "")>>

(* Variant: the titles appended before the grid *)
SceneElements_TitlesFirst(sc) ==
    Preamble \o TitleElements \o GridElements(sc) \o AxisElements \o RightTickElements(sc)
    \o DateLabelElements(sc) \o DataPolylines(sc) \o LegendElements \o Closing

SceneElements(sc) ==
    Preamble \o GridElements(sc) \o AxisElements \o RightTickElements(sc)
    \o DateLabelElements(sc) \o DataPolylines(sc) \o TitleElements \o LegendElements
    \o Closing

(* price_y / fluct_y divide by rel_range / (fluct_max - fluct_min) *)
SceneRaised(sc) == sc.rel_range = R(0) \/ sc.fluct_max = sc.fluct_min

(* Lines 191-298: svg_parts from the declaration to "</svg>" *)
BuildScene ==
    /\ pc = "computed"
    /\ IF SceneRaised(scales)
       THEN /\ pc' = "failed"
            /\ err' = ZeroDivisionError
            /\ svg_parts' = svg_parts
       ELSE /\ pc' = "built"
            /\ err' = err
            /\ svg_parts' = SceneElements(scales)
    /\ UNCHANGED <<csv_file, rowsRead, dates, prices, scales, output, arg, ret>>

(* output_path.write_text("\n".join(svg_parts)) *)
WriteOutput ==
    /\ pc = "built"
    /\ output' = [writes |-> output.writes + 1, content |-> svg_parts]
    /\ pc' = "written"
    /\ UNCHANGED <<csv_file, rowsRead, dates, prices, err, scales, svg_parts, arg, ret>>

(* main: print(f"SVG plot written to ...") *)
PrintDone ==
    /\ pc = "written"
    /\ pc' = "done"
    /\ UNCHANGED <<csv_file, rowsRead, dates, prices, err, scales, svg_parts, output, arg, ret>>

-----------------------------------------------------------------------------
(* One run of main on one input file *)

Init ==
    /\ pc = "start"
    /\ csv_file \in Files
    /\ rowsRead = 0
    /\ dates = <<>>
    /\ prices = [a \in {"ABTC", "BTC"} |-> <<>>]
    /\ err = NoError
    /\ scales = NoScales
    /\ svg_parts = <<>>
    /\ output = NoOutput
    /\ arg = <<>>
    /\ ret = <<>>

Next ==
    \/ OpenAndCheckHeader
    \/ ReadRow
    \/ EndOfRows
    \/ ComputeScales
    \/ BuildScene
    \/ WriteOutput
    \/ PrintDone

Spec == Init /\ [][Next]_vars

-----------------------------------------------------------------------------
(* The statistics functions and the x-label selection called on their own *)

IdleMain ==
    /\ csv_file = NoFile
    /\ rowsRead = 0
    /\ dates = <<>>
    /\ prices = [a \in {"ABTC", "BTC"} |-> <<>>]
    /\ err = NoError
    /\ scales = NoScales
    /\ svg_parts = <<>>
    /\ output = NoOutput

mainVars == <<csv_file, rowsRead, dates, prices, err, scales, svg_parts, output>>

(* compute_fluctuation on every sequence of up to MaxLen values *)
FluctValues == {-50, 0, 10, 50, 100}
FluctInputs == UNION {[1..n -> {R(v) : v \in FluctValues}] : n \in 0..MaxLen}

InitFluct ==
    /\ pc = "call"
    /\ arg \in FluctInputs
    /\ ret = <<>>
    /\ IdleMain

CallFluct ==
    /\ pc = "call"
    /\ LET result == compute_fluctuation(arg)
       IN  IF HasRaised(result)
           THEN pc' = "raised" /\ ret' = <<>>
           ELSE pc' = "returned" /\ ret' = result
    /\ UNCHANGED <<arg, mainVars>>

NextFluct == CallFluct

SpecFluct == InitFluct /\ [][NextFluct]_vars

(* compute_trendline on arithmetic sequences a, a + b, a + 2b, ...; the   *)
(* starts and steps are integers and halves, which floats hold exactly    *)
TrendStarts == {<<-1, 1>>, <<0, 1>>, <<1, 2>>, <<1, 1>>, <<3, 1>>}
TrendSteps == {<<-2, 1>>, <<0, 1>>, <<1, 2>>, <<2, 1>>}
Arithmetic(a, b, n) == [i \in 1..n |-> RAdd(a, RMul(b, R(i - 1)))]

InitTrend ==
    /\ pc = "call"
    /\ \E a \in TrendStarts, b \in TrendSteps, n \in 1..MaxTrendLen : arg = Arithmetic(a, b, n)
    /\ ret = <<>>
    /\ IdleMain

CallTrend ==
    /\ pc = "call"
    /\ LET result == compute_trendline(arg)
       IN  IF HasRaised(result)
           THEN pc' = "raised" /\ ret' = <<>>
           ELSE pc' = "returned" /\ ret' = result
    /\ UNCHANGED <<arg, mainVars>>

NextTrend == CallTrend

SpecTrend == InitTrend /\ [][NextTrend]_vars

(* The x-axis label selection of render_svg for every row count *)
InitLabels ==
    /\ pc = "call"
    /\ arg \in 1..MaxCount
    /\ ret = <<>>
    /\ IdleMain

CallLabels ==
    /\ pc = "call"
    /\ ret' = [stride |-> XLabelStride(arg), extra |-> XLabelExtra(arg),
               indices |-> XLabelIndices(arg)]
    /\ pc' = "returned"
    /\ UNCHANGED <<arg, mainVars>>

NextLabels == CallLabels

SpecLabels == InitLabels /\ [][NextLabels]_vars

-----------------------------------------------------------------------------
(* Properties *)

HeaderIncomplete == csv_file.exists /\ ~(Columns \subseteq csv_file.header)
HeaderMessages == {MissingDateError.msg, MissingAssetsError(<<>>).msg}
Rendered == pc \in {"built", "written", "done"}
Computed == pc \in {"computed", "built", "written", "done"}

C2_WriteOnlyAfterScene ==
    /\ output.writes <= 1
    /\ (pc \notin {"written", "done"} => output = NoOutput)
    /\ (pc = "failed" => err # NoError /\ output = NoOutput)
    /\ (output.writes = 1 =>
            /\ err = NoError
            /\ Columns \subseteq csv_file.header
            /\ rowsRead = Len(csv_file.rows)
            /\ Len(dates) = Len(csv_file.rows)
            /\ dates # <<>>
            /\ scales.computed
            /\ svg_parts # <<>>
            /\ svg_parts[Len(svg_parts)].role = "close"
            /\ Len(SelectSeq(svg_parts, LAMBDA e : e.tag = "polyline")) = 6
            /\ output.content = svg_parts)

C2_Witness == pc = "done" /\ output.writes = 1 /\ output.content # <<>>

InCanvas(pt) ==
    /\ 0 <= pt[1] /\ pt[1] <= 100 * width
    /\ 0 <= pt[2] /\ pt[2] <= 100 * height

\* C3, as stated: every coordinate of every element render_svg emits lies
\* within the canvas, x in [0, 1000] and y in [0, 620].
C3_AllCoordinatesInCanvas ==
    Rendered =>
        \A i \in 1..Len(svg_parts) :
            \A k \in 1..Len(svg_parts[i].pts) : InCanvas(svg_parts[i].pts[k])

PolylineOrder ==
    <<<<"relative_change", "#2ca02c", "3.0", "">>,
      <<"trendline", "#98df8a", "2.0", "6 6">>,
      <<"relative_change", "#1f77b4", "3.0", "">>,
      <<"trendline", "#aec7e8", "2.0", "6 6">>,
      <<"fluctuation", "#d62728", "2.0", "2 6">>,
      <<"fluctuation", "#ff7f0e", "2.0", "2 6">>>>

\* C4: the element list holds exactly six data polylines, in the order
\* ABTC relative change, ABTC trendline, BTC relative change, BTC trendline,
\* ABTC fluctuation, BTC fluctuation, with the stated stroke widths and dash
\* patterns, and each polyline has one point per loaded row.
C4_SixPolylinesInOrder ==
    Rendered =>
        LET polys == SelectSeq(svg_parts, LAMBDA e : e.tag = "polyline")
        IN  /\ Len(polys) = 6
            /\ [k \in 1..6 |-> <<polys[k].role, polys[k].color, polys[k].width, polys[k].dash>>]
                 = PolylineOrder
            /\ \A k \in 1..6 : Len(polys[k].pts) = Len(csv_file.rows)

C4_Witness ==
    /\ pc = "built"
    /\ Len(csv_file.rows) = MaxRows
    /\ \E i \in 1..Len(svg_parts) :
         svg_parts[i].role = "fluctuation" /\ Len(svg_parts[i].pts) = MaxRows

GridRoles == {"grid", "axis"}
TickRoles == {"tick_label_left", "tick_label_right", "date_label"}
CaptionRoles == {"title", "x_axis_label", "left_axis_label", "right_axis_label",
                 "legend_line", "legend_label"}

(* 1: grid and axis lines; 2: data polylines; 3: text and legend entries;  *)
(* 0: the declaration, the svg tags and the background                     *)
Layer(e) ==
    IF e.tag = "polyline" THEN 2
    ELSE IF e.tag = "text" \/ e.role = "legend_line" THEN 3
    ELSE IF e.tag = "line" THEN 1
    ELSE 0

\* C5, as stated: the elements fall into three consecutive layers, grid and
\* axis lines, then data polylines, then text elements and legend entries.
C5_ThreeLayers ==
    Rendered =>
        \A i, j \in 1..Len(svg_parts) :
            (i < j /\ Layer(svg_parts[i]) # 0 /\ Layer(svg_parts[j]) # 0)
                => Layer(svg_parts[i]) <= Layer(svg_parts[j])

\* C5, amended: the six data polylines are consecutive; every grid and axis
\* line comes before them; the title, the axis labels and the legend entries
\* come after them; the tick labels and the date labels are text elements
\* that come before them, each left tick label right after its grid line.
C5_LayersWithTickLabelsFirst ==
    Rendered =>
        LET n == Len(svg_parts)
            polyAt == {i \in 1..n : svg_parts[i].tag = "polyline"}
        IN  /\ Cardinality(polyAt) = 6
            /\ \A i \in polyAt, j \in polyAt : \A k \in i..j : k \in polyAt
            /\ \A i \in 1..n :
                 /\ svg_parts[i].role \in GridRoles => \A j \in polyAt : i < j
                 /\ svg_parts[i].role \in TickRoles =>
                        svg_parts[i].tag = "text" /\ \A j \in polyAt : i < j
                 /\ svg_parts[i].role \in CaptionRoles => \A j \in polyAt : j < i
                 /\ svg_parts[i].role = "grid" => svg_parts[i + 1].role = "tick_label_left"
            /\ \A r \in GridRoles \cup TickRoles \cup CaptionRoles :
                 \E i \in 1..n : svg_parts[i].role = r

C5_Witness ==
    /\ pc = "built"
    /\ \E i, j \in 1..Len(svg_parts) :
         /\ i < j
         /\ svg_parts[i].role = "date_label"
         /\ svg_parts[j].tag = "polyline"

\* C6, as stated: the labels are at the indices 0, s, 2s, ... below n with
\* s = max(1, n // 5), of which there are at most 6, plus one additional
\* label for the final index n - 1 exactly when it is not one of those, so
\* the final index is labelled exactly once.
C6_StrideLabels ==
    pc = "returned" =>
        LET n == arg
            s == Max2(1, n \div 5)
            claimed == {i \in 0..(n - 1) : i % s = 0}
            labelled == {ret.indices[k] : k \in 1..Len(ret.indices)}
        IN  /\ Cardinality(claimed) <= 6
            /\ labelled = claimed \cup {n - 1}
            /\ Len(ret.indices) = Cardinality(claimed) + (IF (n - 1) \in claimed THEN 0 ELSE 1)
            /\ Cardinality({k \in 1..Len(ret.indices) : ret.indices[k] = n - 1}) = 1

SampleValues(sc) ==
    {sc.relative_prices[a][i] : a \in {"ABTC", "BTC"}, i \in 1..sc.count}
    \cup {sc.price_trendlines[a][i] : a \in {"ABTC", "BTC"}, i \in 1..sc.count}
    \cup {sc.rel_min, RAdd(sc.rel_min, sc.rel_range), R(-50), <<1, 3>>, R(7)}

\* C7: the divisor rel_range of price_y is never zero: it is max - min over
\* both relative-change series, or 1 when they are equal; price_y is
\* strictly decreasing, maps rel_min to 540 and rel_min + rel_range to 70.
C7_PriceYDecreasing ==
    Computed =>
        LET sc == scales
            both == sc.relative_prices["ABTC"] \o sc.relative_prices["BTC"]
            lo == RMinSeq(both)
            hi == RMaxSeq(both)
        IN  /\ sc.rel_range # R(0)
            /\ sc.rel_min = lo
            /\ sc.rel_range = IF hi = lo THEN R(1) ELSE RSub(hi, lo)
            /\ RLt(R(0), sc.rel_range)
            /\ \A a, b \in SampleValues(sc) :
                 RLt(a, b) => RLt(price_y(b, sc.rel_min, sc.rel_range),
                                  price_y(a, sc.rel_min, sc.rel_range))
            /\ price_y(sc.rel_min, sc.rel_min, sc.rel_range) = R(540)
            /\ price_y(RAdd(sc.rel_min, sc.rel_range), sc.rel_min, sc.rel_range) = R(70)

C7_Witness ==
    /\ pc = "computed"
    /\ scales.rel_max = scales.rel_min
    /\ scales.count = MaxRows

FluctExample == <<R(100), R(100), R(50), R(0), R(10)>>

\* C8: compute_fluctuation never fails and returns a sequence as long as its
\* input, with 0 at index 0, 0 after a value that is exactly 0, and otherwise
\* 100 * (values[i] - values[i-1]) / values[i-1]; [100, 100, 50, 0, 10]
\* gives [0, 0, -50, -100, 0].
C8_Fluctuation ==
    /\ pc # "raised"
    /\ pc = "returned" =>
        /\ Len(ret) = Len(arg)
        /\ \A i \in 1..Len(arg) :
             ret[i] = IF i = 1 THEN R(0)
                      ELSE IF arg[i - 1][1] = 0 THEN R(0)
                      ELSE RDiv(RMul(R(100), RSub(arg[i], arg[i - 1])), arg[i - 1])
        /\ arg = FluctExample => ret = <<R(0), R(0), R(-50), R(-100), R(0)>>

C8_Witness == pc = "returned" /\ arg = FluctExample

\* C9: compute_trendline returns an arithmetic sequence unchanged; for one
\* value the regression denominator is zero and the mean is returned, for
\* two or more values the denominator is strictly positive.
C9_TrendlineOfLinear ==
    /\ pc # "raised"
    /\ pc = "returned" =>
        /\ Len(ret) = Len(arg)
        /\ ret = arg
        /\ Len(arg) = 1 => TrendDenom(Len(arg)) = 0 /\ ret[1] = RDiv(RSum(arg), R(1))
        /\ Len(arg) >= 2 => TrendDenom(Len(arg)) > 0

C9_Witness == pc = "returned" /\ arg = <<R(1), R(3), R(5), R(7), R(9)>>

\* C10: the fluctuation domain is the raw min and max over both fluctuation
\* series, nudged to min - 1 and max + 1 when they are equal, and only then
\* widened by 5% of the resulting span on each side: [-1.1, 1.1] when all
\* fluctuation is equal; the span is strictly positive and 0 lies strictly
\* inside it.
C10_NudgeThenPad ==
    Computed =>
        LET sc == scales
            both == sc.fluctuation["ABTC"] \o sc.fluctuation["BTC"]
            lo == RMinSeq(both)
            hi == RMaxSeq(both)
            pad == RMul(<<1, 20>>, RSub(hi, lo))
        IN  /\ lo = hi => sc.fluct_min = <<-11, 10>> /\ sc.fluct_max = <<11, 10>>
            /\ lo # hi => sc.fluct_min = RSub(lo, pad) /\ sc.fluct_max = RAdd(hi, pad)
            /\ RLt(sc.fluct_min, sc.fluct_max)
            /\ RLt(sc.fluct_min, R(0))
            /\ RLt(R(0), sc.fluct_max)

C10_Witness ==
    /\ pc = "computed"
    /\ scales.count = MaxRows
    /\ \A a \in {"ABTC", "BTC"} : \A i \in 1..scales.count : scales.fluctuation[a][i] = R(0)

====
